---- MODULE Spec2Model ----
(***************************************************************************)
(* Model of the NFTMarketplace contract (src/test/NFTMarket.js:207-394):   *)
(* the ledger of market records, its two counters, the listing fee, the    *)
(* ERC721 holder table it inherits, and the ether balances it moves.       *)
(* One transaction is one step: a handler runs statement by statement on   *)
(* a working copy of the state and the copy is committed only when no      *)
(* require/transfer/panic reverted.                                        *)
(* Amounts are in units of 0.001 ether.  Token URIs are stored verbatim    *)
(* and never read by the ledger, so they are left out.  The entry points   *)
(* are the five state-changing functions the contract declares; the        *)
(* transfer and approval functions it inherits from ERC721 are not part of *)
(* the ledger's interface and are not called here.                         *)
(***************************************************************************)
EXTENDS Integers, Sequences, FiniteSets, TLC

MaxTokens == 2      \* createToken is explored while _tokenIds < MaxTokens
MaxPrice == 1       \* prices and attached payments range over 0..MaxPrice
MaxBalance == 2     \* a transaction is explored while it leaves the contract
                    \* at most this much ether

InitListingPrice == 1   \* 0.001 ether

ZERO == "0x0"           \* address(0)
THIS == "market"        \* address(this), the escrow account
Deployer == "admin"     \* msg.sender of the constructor
Users == {"admin", "alice", "bob"}
Addresses == Users \cup {THIS, ZERO}
TokenIdSpace == 0..MaxTokens
Amounts == 0..MaxPrice
Fees == 0..InitListingPrice   \* the fees the administrator switches between

\* revert reasons, as the source and the inherited ERC721/Counters spell them
OK == "ok"
ErrPriceZero == "Price must be greater than zero"
ErrListingPrice == "Price must be equal to listing price"
ErrAskingPrice == "Please submit the asking price in order to complete the purchase"
ErrOnlyItemOwner == "Only item owner can perform this operation"
ErrOnlyItemSeller == "Only item seller can perform this operation"
ErrNotSoldYet == "Only cancel items which are not sold yet"
ErrOnlyMarketOwner == "Only marketplace owner can update listing price"
ErrInvalidTokenId == "ERC721: invalid token ID"
ErrIncorrectOwner == "ERC721: transfer from incorrect owner"
ErrToZero == "ERC721: transfer to the zero address"
ErrMintToZero == "ERC721: mint to the zero address"
ErrAlreadyMinted == "ERC721: token already minted"
ErrDecrement == "Counter: decrement overflow"
ErrTransferFailed == "transfer failed: insufficient balance"
ErrPanic == "panic"

\* The contract's storage, the ERC721 holder table and address(this).balance.
\* The accounts of the callers are outside the contract and are taken to hold
\* what a call attaches; what the contract pays out is logged per transaction
\* (the field sent of the working state), together with the storage each
\* recipient would find at the moment it is paid (the field seen).
VARIABLES _tokenIds, _itemsSold, listingPrice, owner, idToMarketItem,
          _owners, balance

vars == <<_tokenIds, _itemsSold, listingPrice, owner, idToMarketItem,
          _owners, balance>>

\* struct MarketItem; a mapping slot never written reads as all zeroes
MarketItem(id, from, to, p, b) ==
  [tokenId |-> id, seller |-> from, owner |-> to, price |-> p, sold |-> b]

DefaultItem == MarketItem(0, ZERO, ZERO, 0, FALSE)

\* the whole chain state a transaction reads and writes
State ==
  [tokenIds |-> _tokenIds, itemsSold |-> _itemsSold,
   listingPrice |-> listingPrice, owner |-> owner,
   items |-> idToMarketItem, holders |-> _owners, balance |-> balance,
   sent |-> <<>>, seen |-> <<>>]

\* the stored part of a working state
Stored(s) == [s EXCEPT !.sent = <<>>, !.seen = <<>>]

Ok(s) == [st |-> s, err |-> OK]
Revert(s, msg) == [st |-> s, err |-> msg]

\* payable(to).transfer(amount): reverts when the contract cannot pay; the
\* recipients are externally owned accounts, which accept any transfer
transfer(s, to, amount) ==
  IF s.balance < amount
    THEN Revert(s, ErrTransferFailed)
    ELSE Ok([s EXCEPT !.balance = @ - amount,
                      !.sent = Append(@, <<to, amount>>),
                      !.seen = Append(@, Stored([s EXCEPT
                                                  !.balance = @ - amount]))])

\* ERC721._mint(to, tokenId)
_mint(s, to, tokenId) ==
  IF to = ZERO THEN Revert(s, ErrMintToZero)
  ELSE IF s.holders[tokenId] # ZERO THEN Revert(s, ErrAlreadyMinted)
  ELSE Ok([s EXCEPT !.holders[tokenId] = to])

\* ERC721._transfer(from, to, tokenId): ownerOf(tokenId) must be `from`
_transfer(s, from, to, tokenId) ==
  IF s.holders[tokenId] = ZERO THEN Revert(s, ErrInvalidTokenId)
  ELSE IF s.holders[tokenId] # from THEN Revert(s, ErrIncorrectOwner)
  ELSE IF to = ZERO THEN Revert(s, ErrToZero)
  ELSE Ok([s EXCEPT !.holders[tokenId] = to])

\* Counters.decrement on _itemsSold: require(value > 0)
decrement(s) ==
  IF s.itemsSold > 0
    THEN Ok([s EXCEPT !.itemsSold = @ - 1])
    ELSE Revert(s, ErrDecrement)

\* Counters.increment on _itemsSold
increment(s) == [s EXCEPT !.itemsSold = @ + 1]

\* mutant: the require on msg.sender is missing
updateListingPrice_anyone(s, sender, _listingPrice) ==
  Ok([s EXCEPT !.listingPrice = _listingPrice])

updateListingPrice(s, sender, _listingPrice) ==
  IF s.owner # sender THEN Revert(s, ErrOnlyMarketOwner)
  ELSE Ok([s EXCEPT !.listingPrice = _listingPrice])

\* mutant: the payment is checked before the price
createMarketItem_paymentFirst(s, sender, value, tokenId, price) ==
  IF value # s.listingPrice THEN Revert(s, ErrListingPrice)
  ELSE IF ~(price > 0) THEN Revert(s, ErrPriceZero)
  ELSE _transfer([s EXCEPT !.items[tokenId] =
                     MarketItem(tokenId, sender, THIS, price, FALSE)],
                 sender, THIS, tokenId)

\* mutant: an overpayment is accepted (msg.value >= listingPrice)
createMarketItem_atLeast(s, sender, value, tokenId, price) ==
  IF ~(price > 0) THEN Revert(s, ErrPriceZero)
  ELSE IF value < s.listingPrice THEN Revert(s, ErrListingPrice)
  ELSE _transfer([s EXCEPT !.items[tokenId] =
                     MarketItem(tokenId, sender, THIS, price, FALSE)],
                 sender, THIS, tokenId)

createMarketItem(s, sender, value, tokenId, price) ==
  IF ~(price > 0) THEN Revert(s, ErrPriceZero)
  ELSE IF value # s.listingPrice THEN Revert(s, ErrListingPrice)
  ELSE _transfer([s EXCEPT !.items[tokenId] =
                     MarketItem(tokenId, sender, THIS, price, FALSE)],
                 sender, THIS, tokenId)

createToken(s, sender, value, price) ==
  LET s1 == [s EXCEPT !.tokenIds = @ + 1]
      newTokenId == s1.tokenIds
      r == _mint(s1, sender, newTokenId)
  IN IF r.err # OK THEN r
     ELSE createMarketItem(r.st, sender, value, newTokenId, price)

\* mutant: _itemsSold.increment() is missing
createMarketSale_noIncrement(s, sender, value, tokenId) ==
  LET price == s.items[tokenId].price
      seller == s.items[tokenId].seller
      s1 == [s EXCEPT !.items[tokenId].owner = sender,
                      !.items[tokenId].sold = TRUE,
                      !.items[tokenId].seller = ZERO]
      r1 == _transfer(s1, THIS, sender, tokenId)
      r2 == transfer(r1.st, s.owner, s.listingPrice)
  IN IF value # price THEN Revert(s, ErrAskingPrice)
     ELSE IF r1.err # OK THEN r1
     ELSE IF r2.err # OK THEN r2
     ELSE transfer(r2.st, seller, value)

\* mutant: the token is not moved to the buyer
createMarketSale_noTokenMove(s, sender, value, tokenId) ==
  LET price == s.items[tokenId].price
      seller == s.items[tokenId].seller
      s1 == increment([s EXCEPT !.items[tokenId].owner = sender,
                                !.items[tokenId].sold = TRUE,
                                !.items[tokenId].seller = ZERO])
      r2 == transfer(s1, s.owner, s.listingPrice)
  IN IF value # price THEN Revert(s, ErrAskingPrice)
     ELSE IF r2.err # OK THEN r2
     ELSE transfer(r2.st, seller, value)

\* mutant: the funds are sent before the record is updated
createMarketSale_payFirst(s, sender, value, tokenId) ==
  LET price == s.items[tokenId].price
      seller == s.items[tokenId].seller
      r1 == transfer(s, s.owner, s.listingPrice)
      r2 == transfer(r1.st, seller, value)
      s3 == increment([r2.st EXCEPT !.items[tokenId].owner = sender,
                                    !.items[tokenId].sold = TRUE,
                                    !.items[tokenId].seller = ZERO])
  IN IF value # price THEN Revert(s, ErrAskingPrice)
     ELSE IF r1.err # OK THEN r1
     ELSE IF r2.err # OK THEN r2
     ELSE _transfer(s3, THIS, sender, tokenId)

\* mutant: the seller is read after the record has been updated
createMarketSale_sellerReadLate(s, sender, value, tokenId) ==
  LET price == s.items[tokenId].price
      s1 == increment([s EXCEPT !.items[tokenId].owner = sender,
                                !.items[tokenId].sold = TRUE,
                                !.items[tokenId].seller = ZERO])
      seller == s1.items[tokenId].seller
      r1 == _transfer(s1, THIS, sender, tokenId)
      r2 == transfer(r1.st, s.owner, s.listingPrice)
  IN IF value # price THEN Revert(s, ErrAskingPrice)
     ELSE IF r1.err # OK THEN r1
     ELSE IF r2.err # OK THEN r2
     ELSE transfer(r2.st, seller, value)

\* mutant: the seller field is not cleared
createMarketSale_keepSeller(s, sender, value, tokenId) ==
  LET price == s.items[tokenId].price
      seller == s.items[tokenId].seller
      s1 == increment([s EXCEPT !.items[tokenId].owner = sender,
                                !.items[tokenId].sold = TRUE])
      r1 == _transfer(s1, THIS, sender, tokenId)
      r2 == transfer(r1.st, s.owner, s.listingPrice)
  IN IF value # price THEN Revert(s, ErrAskingPrice)
     ELSE IF r1.err # OK THEN r1
     ELSE IF r2.err # OK THEN r2
     ELSE transfer(r2.st, seller, value)

createMarketSale(s, sender, value, tokenId) ==
  LET price == s.items[tokenId].price
      seller == s.items[tokenId].seller
      s1 == increment([s EXCEPT !.items[tokenId].owner = sender,
                                !.items[tokenId].sold = TRUE,
                                !.items[tokenId].seller = ZERO])
      r1 == _transfer(s1, THIS, sender, tokenId)
      r2 == transfer(r1.st, s.owner, s.listingPrice)
  IN IF value # price THEN Revert(s, ErrAskingPrice)
     ELSE IF r1.err # OK THEN r1
     ELSE IF r2.err # OK THEN r2
     ELSE transfer(r2.st, seller, value)

\* mutant: _itemsSold.decrement() is missing
resellToken_noDecrement(s, sender, value, tokenId, price) ==
  LET s1 == [s EXCEPT !.items[tokenId].sold = FALSE,
                      !.items[tokenId].price = price,
                      !.items[tokenId].seller = sender,
                      !.items[tokenId].owner = THIS]
  IN IF s.items[tokenId].owner # sender THEN Revert(s, ErrOnlyItemOwner)
     ELSE IF value # s.listingPrice THEN Revert(s, ErrListingPrice)
     ELSE _transfer(s1, sender, THIS, tokenId)

\* mutant: the payment is checked before the caller
resellToken_paymentFirst(s, sender, value, tokenId, price) ==
  LET s1 == [s EXCEPT !.items[tokenId].sold = FALSE,
                      !.items[tokenId].price = price,
                      !.items[tokenId].seller = sender,
                      !.items[tokenId].owner = THIS]
      r1 == decrement(s1)
  IN IF value # s.listingPrice THEN Revert(s, ErrListingPrice)
     ELSE IF s.items[tokenId].owner # sender THEN Revert(s, ErrOnlyItemOwner)
     ELSE IF r1.err # OK THEN r1
     ELSE _transfer(r1.st, sender, THIS, tokenId)

\* mutant: the new price is not stored
resellToken_keepPrice(s, sender, value, tokenId, price) ==
  LET s1 == [s EXCEPT !.items[tokenId].sold = FALSE,
                      !.items[tokenId].seller = sender,
                      !.items[tokenId].owner = THIS]
      r1 == decrement(s1)
  IN IF s.items[tokenId].owner # sender THEN Revert(s, ErrOnlyItemOwner)
     ELSE IF value # s.listingPrice THEN Revert(s, ErrListingPrice)
     ELSE IF r1.err # OK THEN r1
     ELSE _transfer(r1.st, sender, THIS, tokenId)

resellToken(s, sender, value, tokenId, price) ==
  LET s1 == [s EXCEPT !.items[tokenId].sold = FALSE,
                      !.items[tokenId].price = price,
                      !.items[tokenId].seller = sender,
                      !.items[tokenId].owner = THIS]
      r1 == decrement(s1)
  IN IF s.items[tokenId].owner # sender THEN Revert(s, ErrOnlyItemOwner)
     ELSE IF value # s.listingPrice THEN Revert(s, ErrListingPrice)
     ELSE IF r1.err # OK THEN r1
     ELSE _transfer(r1.st, sender, THIS, tokenId)

\* mutant: _itemsSold.increment() is missing
cancelItemListing_noIncrement(s, sender, tokenId) ==
  LET s1 == [s EXCEPT !.items[tokenId].owner = sender,
                      !.items[tokenId].seller = ZERO,
                      !.items[tokenId].sold = TRUE]
      r1 == transfer(s1, s.owner, s.listingPrice)
  IN IF s.items[tokenId].seller # sender THEN Revert(s, ErrOnlyItemSeller)
     ELSE IF s.items[tokenId].sold # FALSE THEN Revert(s, ErrNotSoldYet)
     ELSE IF r1.err # OK THEN r1
     ELSE _transfer(r1.st, THIS, sender, tokenId)

\* mutant: the require on the seller is missing
cancelItemListing_anyone(s, sender, tokenId) ==
  LET s1 == increment([s EXCEPT !.items[tokenId].owner = sender,
                                !.items[tokenId].seller = ZERO,
                                !.items[tokenId].sold = TRUE])
      r1 == transfer(s1, s.owner, s.listingPrice)
  IN IF s.items[tokenId].sold # FALSE THEN Revert(s, ErrNotSoldYet)
     ELSE IF r1.err # OK THEN r1
     ELSE _transfer(r1.st, THIS, sender, tokenId)

\* mutant: the seller field is not cleared
cancelItemListing_keepSeller(s, sender, tokenId) ==
  LET s1 == increment([s EXCEPT !.items[tokenId].owner = sender,
                                !.items[tokenId].sold = TRUE])
      r1 == transfer(s1, s.owner, s.listingPrice)
  IN IF s.items[tokenId].seller # sender THEN Revert(s, ErrOnlyItemSeller)
     ELSE IF s.items[tokenId].sold # FALSE THEN Revert(s, ErrNotSoldYet)
     ELSE IF r1.err # OK THEN r1
     ELSE _transfer(r1.st, THIS, sender, tokenId)

cancelItemListing(s, sender, tokenId) ==
  LET s1 == increment([s EXCEPT !.items[tokenId].owner = sender,
                                !.items[tokenId].seller = ZERO,
                                !.items[tokenId].sold = TRUE])
      r1 == transfer(s1, s.owner, s.listingPrice)
  IN IF s.items[tokenId].seller # sender THEN Revert(s, ErrOnlyItemSeller)
     ELSE IF s.items[tokenId].sold # FALSE THEN Revert(s, ErrNotSoldYet)
     ELSE IF r1.err # OK THEN r1
     ELSE _transfer(r1.st, THIS, sender, tokenId)

\* the scan of fetchMarketItems over ids 1..itemCount into an array of n
\* entries; a write at an index >= n panics
fetchLoop(s, n, itemCount) ==
  LET RECURSIVE loop(_, _, _)
      loop(i, currentIndex, items) ==
        IF ~(i < itemCount) THEN [err |-> OK, items |-> items]
        ELSE IF s.items[i + 1].owner = THIS
          THEN IF currentIndex >= n
                 THEN [err |-> ErrPanic, items |-> items]
                 ELSE loop(i + 1, currentIndex + 1,
                           [items EXCEPT ![currentIndex + 1] = s.items[i + 1]])
          ELSE loop(i + 1, currentIndex, items)
  IN loop(0, 0, [k \in 1..n |-> DefaultItem])

\* mutant: the array is sized by the number of items ever created
fetchMarketItems_sizedByItemCount(s) ==
  fetchLoop(s, s.tokenIds, s.tokenIds)

\* fetchMarketItems(): the checked subtraction panics on underflow
fetchMarketItems(s) ==
  IF s.tokenIds < s.itemsSold
    THEN [err |-> ErrPanic, items |-> <<>>]
    ELSE fetchLoop(s, s.tokenIds - s.itemsSold, s.tokenIds)

\* the two passes of fetchMyNFTs and fetchItemsListed: count the records whose
\* address field (owner or seller) is the caller, then fill an array of that
\* size; a write at an index >= the size panics
fetchBy(s, sender, field) ==
  LET totalItemCount == s.tokenIds
      RECURSIVE count(_, _)
      count(i, itemCount) ==
        IF ~(i < totalItemCount) THEN itemCount
        ELSE IF s.items[i + 1][field] = sender
          THEN count(i + 1, itemCount + 1)
          ELSE count(i + 1, itemCount)
      n == count(0, 0)
      RECURSIVE fill(_, _, _)
      fill(i, currentIndex, items) ==
        IF ~(i < totalItemCount) THEN [err |-> OK, items |-> items]
        ELSE IF s.items[i + 1][field] = sender
          THEN IF currentIndex >= n
                 THEN [err |-> ErrPanic, items |-> items]
                 ELSE fill(i + 1, currentIndex + 1,
                           [items EXCEPT ![currentIndex + 1] = s.items[i + 1]])
          ELSE fill(i + 1, currentIndex, items)
  IN fill(0, 0, [k \in 1..n |-> DefaultItem])

\* fetchMyNFTs(), called by sender
fetchMyNFTs(s, sender) == fetchBy(s, sender, "owner")

\* mutant: the scan of fetchItemsListed compares the owner field, as the scan
\* of fetchMyNFTs does
fetchItemsListed_byOwner(s, sender) == fetchBy(s, sender, "owner")

\* fetchItemsListed(), called by sender
fetchItemsListed(s, sender) == fetchBy(s, sender, "seller")

\* msg.value is credited to the contract before the body runs
Pay(s, value) == [s EXCEPT !.balance = @ + value]

\* a call of one public state-changing function
Call(f, from, v, id, p) ==
  [op |-> f, sender |-> from, value |-> v, tokenId |-> id, price |-> p]

\* the body of the called function, run on the state after the payment
Exec(s, c) ==
  CASE c.op = "createToken" -> createToken(s, c.sender, c.value, c.price)
    [] c.op = "createMarketSale" ->
         createMarketSale(s, c.sender, c.value, c.tokenId)
    [] c.op = "resellToken" ->
         resellToken(s, c.sender, c.value, c.tokenId, c.price)
    [] c.op = "cancelItemListing" -> cancelItemListing(s, c.sender, c.tokenId)
    [] c.op = "updateListingPrice" -> updateListingPrice(s, c.sender, c.price)

\* the transaction up to where its body stopped: the working state there
\* (with the transfers made so far in sent) and the revert reason
Run(s, c) == Exec(Pay(s, c.value), c)

\* mutant: what the body wrote before it reverted stays
Commit_keepPartial(pre, r) == Stored(r.st)

\* a reverted transaction leaves the state it started from; the log of
\* transfers is not part of the stored state
Commit(pre, r) == IF r.err = OK THEN Stored(r.st) ELSE pre

Init ==
  /\ _tokenIds = 0
  /\ _itemsSold = 0
  /\ listingPrice = InitListingPrice
  /\ owner = Deployer
  /\ idToMarketItem = [i \in TokenIdSpace |-> DefaultItem]
  /\ _owners = [i \in TokenIdSpace |-> ZERO]
  /\ balance = 0

\* one transaction, from submission to commit or revert
Tx(c) ==
  \E post \in {Commit(State, Run(State, c))} :
    /\ post.balance <= MaxBalance
    /\ _tokenIds' = post.tokenIds
    /\ _itemsSold' = post.itemsSold
    /\ listingPrice' = post.listingPrice
    /\ owner' = post.owner
    /\ idToMarketItem' = post.items
    /\ _owners' = post.holders
    /\ balance' = post.balance

\* the calls explored from the current state, per entry point
ListCalls ==
  IF _tokenIds < MaxTokens
    THEN {Call("createToken", u, v, 0, p) :
            u \in Users, v \in Amounts, p \in Amounts}
    ELSE {}

PurchaseCalls ==
  {Call("createMarketSale", u, v, i, 0) :
     u \in Users, v \in Amounts, i \in TokenIdSpace}

ResellCalls ==
  {Call("resellToken", u, v, i, p) :
     u \in Users, v \in Amounts, i \in TokenIdSpace, p \in Amounts}

CancelCalls ==
  {Call("cancelItemListing", u, 0, i, 0) : u \in Users, i \in TokenIdSpace}

SetListingFeeCalls ==
  {Call("updateListingPrice", u, v, 0, f) :
     u \in Users, v \in Amounts, f \in Fees}

Calls ==
  ListCalls \cup PurchaseCalls \cup ResellCalls \cup CancelCalls
    \cup SetListingFeeCalls

List ==
  /\ ListCalls # {}
  /\ \E c \in ListCalls : Tx(c)

Purchase ==
  /\ PurchaseCalls # {}
  /\ \E c \in PurchaseCalls : Tx(c)

Resell ==
  /\ ResellCalls # {}
  /\ \E c \in ResellCalls : Tx(c)

Cancel ==
  /\ CancelCalls # {}
  /\ \E c \in CancelCalls : Tx(c)

SetListingFee ==
  /\ SetListingFeeCalls # {}
  /\ \E c \in SetListingFeeCalls : Tx(c)

Next == List \/ Purchase \/ Resell \/ Cancel \/ SetListingFee

Spec == Init /\ [][Next]_vars

\* updateListingPrice calls that set the listing price to the value it has
KeepListingFee ==
  /\ SetListingFeeCalls # {}
  /\ \E c \in SetListingFeeCalls : c.price = listingPrice /\ Tx(c)

\* the marketplace while its listing price is never changed
NextFixedFee == List \/ Purchase \/ Resell \/ Cancel \/ KeepListingFee

SpecFixedFee == Init /\ [][NextFixedFee]_vars

TypeOK ==
  /\ _tokenIds \in 0..MaxTokens
  /\ _itemsSold \in Nat
  /\ listingPrice \in Fees
  /\ owner \in Users
  /\ \A i \in TokenIdSpace : idToMarketItem[i].price \in Amounts
  /\ balance \in 0..MaxBalance

----------------------------------------------------------------------------
\* The claims.  A claim about what a call does in a reachable state is stated
\* on Run(State, c), the transaction Tx(c) commits.

CreatedIds == 1.._tokenIds

\* the error kind of the ledger's interface that a revert reason stands for
ErrorKind(msg) ==
  CASE msg = OK -> "Success"
    [] msg = ErrPriceZero -> "InvalidPrice"
    [] msg \in {ErrListingPrice, ErrAskingPrice} -> "InvalidPayment"
    [] msg \in {ErrOnlyItemOwner, ErrOnlyItemSeller} -> "Unauthorized"
    [] msg = ErrNotSoldYet -> "AlreadySold"
    [] msg = ErrOnlyMarketOwner -> "Forbidden"
    [] msg = ErrInvalidTokenId -> "NotFound"
    [] OTHER -> "Other"

\* the call c is rejected with the error kind k and changes nothing
Rejected(c, k) ==
  LET r == Run(State, c)
  IN /\ ErrorKind(r.err) = k
     /\ Commit(State, r) = State

Succeeds(c) == Run(State, c).err = OK

\* C1: after every step of any sequence of list, purchase, resell, cancel and
\* setListingFee calls, removedCount (_itemsSold) is at most nextId - 1
\* (_tokenIds) and it is never below zero.
C1_RemovedCountBounded ==
  /\ 0 <= _itemsSold
  /\ _itemsSold <= _tokenIds

\* every created item has been purchased or cancelled, so the counter is at its
\* upper limit
C1_Witness ==
  /\ _tokenIds = MaxTokens
  /\ _itemsSold = _tokenIds

\* C2: in every reachable state (nextId - 1) - removedCount equals the number
\* of records with sold == false.
C2_ActiveCountMatchesUnsold ==
  _tokenIds - _itemsSold =
    Cardinality({i \in CreatedIds : idToMarketItem[i].sold = FALSE})

C2_Witness ==
  /\ _itemsSold >= 1
  /\ _tokenIds - _itemsSold >= 1

\* C3: in every reachable state fetchMarketItems returns exactly the records
\* whose custodian is the escrow account, each once: the array sized
\* _tokenIds - _itemsSold is filled completely, with no default entry left
\* and no write past its end.
C3_FetchActiveExact ==
  LET r == fetchMarketItems(State)
      active == {i \in CreatedIds : idToMarketItem[i].owner = THIS}
  IN /\ r.err = OK
     /\ Len(r.items) = Cardinality(active)
     /\ {r.items[k] : k \in 1..Len(r.items)} =
          {idToMarketItem[i] : i \in active}
     /\ \A k \in 1..Len(r.items) : r.items[k] # DefaultItem

\* all items were listed and the first one has since been purchased or
\* cancelled: the scan skips it and returns one entry less
C3_Witness ==
  /\ _tokenIds = MaxTokens
  /\ _itemsSold = 1
  /\ idToMarketItem[1].owner \in Users
  /\ Len(fetchMarketItems(State).items) = MaxTokens - 1

\* C4: after a purchase of an item has succeeded, a second purchase of the
\* same item with payment equal to the record's price, by the same or another
\* caller, fails with the AlreadySold error kind and leaves the record,
\* removedCount and all balances unchanged.
C4_SecondPurchaseAlreadySold ==
  [][\A c1 \in PurchaseCalls :
       Succeeds(c1) /\ Tx(c1) =>
         \A u \in Users :
           LET c2 == Call("createMarketSale", u,
                          idToMarketItem'[c1.tokenId].price, c1.tokenId, 0)
               r2 == Run(State', c2)
           IN /\ ErrorKind(r2.err) = "AlreadySold"
              /\ Commit(State', r2) = State']_vars

C6_PricePositive ==
  \A i \in CreatedIds : idToMarketItem[i].price > 0

\* C7: list with price > 0 and payment == listingFee always succeeds, and
\* resell of an item by its current custodian with payment == listingFee
\* always succeeds, also after the administrator changed the fee.
C7_ExactFeeSucceeds ==
  /\ \A c \in ListCalls :
       c.price > 0 /\ c.value = listingPrice => Succeeds(c)
  /\ \A c \in ResellCalls :
       idToMarketItem[c.tokenId].owner = c.sender /\ c.value = listingPrice
         => Succeeds(c)

\* the fee has been changed, an end-user holds an item and resells it, and a
\* list is accepted too
C7_Witness ==
  /\ listingPrice # InitListingPrice
  /\ \E c \in ResellCalls :
       /\ idToMarketItem[c.tokenId].owner = c.sender
       /\ c.value = listingPrice
       /\ Succeeds(c)
  /\ \E c \in ListCalls : c.price > 0 /\ c.value = listingPrice /\ Succeeds(c)

\* C8: the listing fee changes only through updateListingPrice called by the
\* administrator: a call by any other account fails with Forbidden and leaves
\* the fee unchanged, no other operation modifies the fee, and the
\* administrator fixed at creation never changes.
C8_OnlyAdminChangesFee ==
  /\ [](/\ owner = Deployer
        /\ \A c \in SetListingFeeCalls :
             c.sender # owner => Rejected(c, "Forbidden"))
  /\ [][/\ owner' = owner
        /\ listingPrice' # listingPrice =>
             \E c \in SetListingFeeCalls :
               /\ c.sender = owner
               /\ c.price = listingPrice'
               /\ Tx(c)]_vars

\* the administrator has changed the fee, and another account's attempt to
\* change it back is refused
C8_Witness ==
  /\ listingPrice # InitListingPrice
  /\ \E c \in SetListingFeeCalls :
       /\ c.sender # owner
       /\ c.price # listingPrice
       /\ Run(State, c).err = ErrOnlyMarketOwner

\* C9: list with price == 0 always fails with InvalidPrice whatever payment is
\* attached, because the price check comes first, and creates no record.
C9_ZeroPriceRejected ==
  \A c \in ListCalls : c.price = 0 => Rejected(c, "InvalidPrice")

\* a zero-price list is refused both with the exact fee and with another
\* payment attached
C9_Witness ==
  /\ _tokenIds >= 1
  /\ \E c, d \in ListCalls :
       /\ c.price = 0 /\ c.value = listingPrice
       /\ d.price = 0 /\ d.value # listingPrice
       /\ Run(State, c).err = ErrPriceZero
       /\ Run(State, d).err = ErrPriceZero

\* C10: list with price > 0, and resell called by the item's current
\* custodian, fail with InvalidPayment whenever the attached payment differs
\* from the current listing fee, and change nothing.
C10_WrongFeeRejected ==
  /\ \A c \in ListCalls :
       c.price > 0 /\ c.value # listingPrice => Rejected(c, "InvalidPayment")
  /\ \A c \in ResellCalls :
       idToMarketItem[c.tokenId].owner = c.sender /\ c.value # listingPrice
         => Rejected(c, "InvalidPayment")

\* an end-user holds an item; the resell and a list with a payment other than
\* the fee are both refused
C10_Witness ==
  /\ \E c \in ResellCalls :
       /\ idToMarketItem[c.tokenId].owner = c.sender
       /\ c.value # listingPrice
       /\ Run(State, c).err = ErrListingPrice
  /\ \E c \in ListCalls :
       /\ c.price > 0
       /\ c.value # listingPrice
       /\ Run(State, c).err = ErrListingPrice

\* C11: cancel of an active listing by any caller other than the record's
\* seller fails with Unauthorized and leaves the record, removedCount, custody
\* and balances unchanged; cancel of an identifier that was never created
\* fails too.
C11_CancelByNonSellerRejected ==
  \A c \in CancelCalls :
    /\ ( /\ c.tokenId \in CreatedIds
         /\ idToMarketItem[c.tokenId].sold = FALSE
         /\ idToMarketItem[c.tokenId].seller # c.sender )
         => Rejected(c, "Unauthorized")
    /\ c.tokenId \notin CreatedIds =>
         /\ Run(State, c).err # OK
         /\ Commit(State, Run(State, c)) = State

\* an active listing exists whose cancel by another account is refused, while
\* an identifier is still unused
C11_Witness ==
  /\ _tokenIds = 1
  /\ \E c \in CancelCalls :
       /\ c.tokenId = 1
       /\ idToMarketItem[1].sold = FALSE
       /\ idToMarketItem[1].seller \in Users \ {c.sender}
       /\ Run(State, c).err = ErrOnlyItemSeller
  /\ \E c \in CancelCalls : c.tokenId = 2 /\ Run(State, c).err # OK

\* C12: cancel on an already-sold item (a record with sold == true, e.g.
\* called by its original seller after a buyer purchased it) fails with the
\* AlreadySold error kind.
C12_CancelSoldIsAlreadySold ==
  \A c \in CancelCalls :
    c.tokenId \in CreatedIds /\ idToMarketItem[c.tokenId].sold = TRUE
      => ErrorKind(Run(State, c).err) = "AlreadySold"

\* C13: resell by a caller who is not the record's current custodian fails
\* with Unauthorized whatever payment is attached and changes nothing; in
\* particular the former seller cannot resell after the sale, and nobody can
\* resell an item that is an active listing.
C13_ResellByNonCustodianRejected ==
  [](\A c \in ResellCalls :
       idToMarketItem[c.tokenId].owner # c.sender
         => Rejected(c, "Unauthorized"))

\* one item is an active listing and another is held by an end-user: resells
\* of the first by its seller and of the second by another account are
\* refused, with the exact fee and with another payment
C13_Witness ==
  \E c, d, e \in ResellCalls :
    /\ idToMarketItem[c.tokenId].owner = THIS
    /\ idToMarketItem[c.tokenId].seller = c.sender
    /\ c.value = listingPrice
    /\ idToMarketItem[d.tokenId].owner \in Users \ {d.sender}
    /\ d.value = listingPrice
    /\ idToMarketItem[e.tokenId].owner \in Users \ {e.sender}
    /\ e.value # listingPrice
    /\ Run(State, c).err = ErrOnlyItemOwner
    /\ Run(State, d).err = ErrOnlyItemOwner
    /\ Run(State, e).err = ErrOnlyItemOwner

\* C14: round trip.  For any seller, buyer, price p > 0 and new price p2,
\* after list(uri, p) by the seller, purchase(id, p) by the buyer and
\* resell(id, p2) by the buyer all succeed, fetchMarketItems contains the
\* record of id with price p2, seller = buyer, custodian = escrow and
\* sold = false, and removedCount is back to its value before the purchase.
C14_RoundTrip ==
  [](\A c1 \in ListCalls :
       LET r1 == Run(State, c1)
           s1 == Commit(State, r1)
           id == s1.tokenIds
       IN r1.err = OK =>
            \A b \in Users :
              LET r2 == Run(s1, Call("createMarketSale", b, c1.price, id, 0))
                  s2 == Commit(s1, r2)
              IN r2.err = OK =>
                   \A p2 \in Amounts :
                     LET r3 == Run(s2, Call("resellToken", b, s2.listingPrice,
                                            id, p2))
                         s3 == Commit(s2, r3)
                         f == fetchMarketItems(s3)
                     IN r3.err = OK =>
                          /\ f.err = OK
                          /\ \E k \in 1..Len(f.items) :
                               f.items[k] = MarketItem(id, b, THIS, p2, FALSE)
                          /\ s3.itemsSold = s1.itemsSold)

\* an end-user holds a created item and resells it at another price than it
\* last had, and the query then returns it with the new price
C14_Witness ==
  \E i \in CreatedIds, c \in ResellCalls :
    /\ c.tokenId = i
    /\ idToMarketItem[i].owner = c.sender
    /\ c.price # idToMarketItem[i].price
    /\ Succeeds(c)
    /\ LET f == fetchMarketItems(Commit(State, Run(State, c)))
       IN \E k \in 1..Len(f.items) :
            f.items[k] = MarketItem(i, c.sender, THIS, c.price, FALSE)

\* the records a query returned
Returned(f) == {f.items[k] : k \in 1..Len(f.items)}

\* C15: after a successful cancel of an item by its seller the record has
\* custodian = seller (the caller), seller = null and sold = true,
\* removedCount has grown by one, fetchItemsListed(seller) no longer includes
\* the item, fetchMyNFTs(seller) includes it and fetchMarketItems no longer
\* includes it.
C15_CancelEffects ==
  [](\A c \in CancelCalls :
       Succeeds(c) =>
         LET post == Commit(State, Run(State, c))
             item == post.items[c.tokenId]
             listed == fetchItemsListed(post, c.sender)
             mine == fetchMyNFTs(post, c.sender)
             active == fetchMarketItems(post)
         IN /\ idToMarketItem[c.tokenId].seller = c.sender
            /\ item = MarketItem(c.tokenId, ZERO, c.sender,
                                 idToMarketItem[c.tokenId].price, TRUE)
            /\ post.itemsSold = _itemsSold + 1
            /\ listed.err = OK /\ mine.err = OK /\ active.err = OK
            /\ \A x \in Returned(listed) : x.tokenId # c.tokenId
            /\ item \in Returned(mine)
            /\ \A x \in Returned(active) : x.tokenId # c.tokenId)

\* a seller with two active listings has cancelled the first: it is among the
\* items the seller owns, the second is still listed by the seller
C15_Witness ==
  \E u \in Users :
    /\ _tokenIds = 2
    /\ idToMarketItem[1] = MarketItem(1, ZERO, u, idToMarketItem[1].price, TRUE)
    /\ idToMarketItem[2].seller = u
    /\ Returned(fetchMyNFTs(State, u)) = {idToMarketItem[1]}
    /\ Returned(fetchItemsListed(State, u)) = {idToMarketItem[2]}
    /\ Returned(fetchMarketItems(State)) = {idToMarketItem[2]}

\* C16: in every reachable state and for every created record, the owner field
\* is the marketplace iff sold is false iff the seller field is a non-null
\* account, and the owner field is the holder of the token.
C16_ActiveEncodingsAgree ==
  \A i \in CreatedIds :
    LET item == idToMarketItem[i]
    IN /\ (item.owner = THIS) <=> (item.sold = FALSE)
       /\ (item.sold = FALSE) <=> (item.seller # ZERO)
       /\ item.seller \in Users \cup {ZERO}
       /\ item.owner = _owners[i]

\* one record is an active listing and another one has left the marketplace
C16_Witness ==
  \E i, j \in CreatedIds :
    /\ idToMarketItem[i].owner = THIS /\ _owners[i] = THIS
    /\ idToMarketItem[i].seller \in Users
    /\ idToMarketItem[j].sold = TRUE /\ _owners[j] \in Users
    /\ idToMarketItem[j].seller = ZERO

\* C17: cancellation is a permanent exit: once a listing has been cancelled,
\* no later operation makes that record an active listing again (sold stays
\* true and the owner field never returns to the marketplace).  Stated on the
\* step that cancels and every call that can follow it.
C17_CancelIsPermanent ==
  [][\A c \in CancelCalls :
       Succeeds(c) /\ Tx(c) =>
         \A d \in Calls :
           LET post == Commit(State', Run(State', d))
           IN /\ post.items[c.tokenId].sold = TRUE
              /\ post.items[c.tokenId].owner # THIS]_vars

\* C18: createMarketSale of an identifier that was never created (0 or above
\* the last identifier) fails with the NotFound kind for every attached
\* payment, payment 0 included, and changes nothing.
C18_PurchaseUnknownIsNotFound ==
  \A c \in PurchaseCalls :
    c.tokenId \notin CreatedIds => Rejected(c, "NotFound")

\* C19: a successful createMarketSale of an active listing sets owner = buyer,
\* sold = true, seller = null and adds one to _itemsSold, sends exactly the
\* current listing price to the marketplace owner and the payment to the
\* account that was the seller before the call (never the null account), and
\* leaves every other record unchanged; a createMarketSale of an active
\* listing with a payment other than the price fails with InvalidPayment.
C19_PurchaseEffects ==
  [](\A c \in PurchaseCalls :
       ( /\ c.tokenId \in CreatedIds
         /\ idToMarketItem[c.tokenId].sold = FALSE ) =>
         LET before == idToMarketItem[c.tokenId]
             post == Commit(State, Run(State, c))
         IN /\ c.value # before.price => Rejected(c, "InvalidPayment")
            /\ Succeeds(c) =>
                 /\ before.seller \in Users
                 /\ c.value = before.price
                 /\ Run(State, c).st.sent =
                      << <<owner, listingPrice>>, <<before.seller, c.value>> >>
                 /\ post =
                      [State EXCEPT
                         !.items[c.tokenId] =
                           MarketItem(c.tokenId, ZERO, c.sender,
                                      before.price, TRUE),
                         !.itemsSold = _itemsSold + 1,
                         !.holders[c.tokenId] = c.sender,
                         !.balance = balance - listingPrice])

\* an item listed by one account is held by another account, which paid its
\* price for it, and the marketplace has passed the listing price on
C19_Witness ==
  \E i \in CreatedIds, c \in PurchaseCalls :
    /\ c.tokenId = i /\ c.value > 0
    /\ idToMarketItem[i] = MarketItem(i, ZERO, c.sender, c.value, TRUE)
    /\ _owners[i] = c.sender
    /\ c.sender # Deployer
    /\ _itemsSold = 1 /\ _tokenIds = 1
    /\ listingPrice = InitListingPrice /\ balance = 0

\* C20: within createMarketSale every record and counter write (owner, sold,
\* seller, _itemsSold) and the move of the token come before any transfer of
\* funds, and the transfers are made in the order listing price to the
\* marketplace owner, then payment to the seller; within cancelItemListing the
\* record and counter writes come before the transfer of the listing price.
\* So a recipient that calls back while it is paid finds the item sold: a
\* createMarketSale or cancelItemListing of it made from there fails.
C20_MutationsBeforeTransfers ==
  /\ \A c \in PurchaseCalls :
       Succeeds(c) =>
         LET r == Run(State, c)
             before == idToMarketItem[c.tokenId]
             after == MarketItem(c.tokenId, ZERO, c.sender, before.price, TRUE)
         IN /\ Len(r.st.sent) = 2 /\ Len(r.st.seen) = 2
            /\ r.st.sent[1][1] = owner
            /\ r.st.sent[2][1] = before.seller
            /\ \A k \in 1..2 :
                 /\ r.st.seen[k].items[c.tokenId] = after
                 /\ r.st.seen[k].itemsSold = _itemsSold + 1
                 /\ r.st.seen[k].holders[c.tokenId] = c.sender
                 /\ \A u \in Users, v \in Amounts :
                      /\ Run(r.st.seen[k],
                             Call("createMarketSale", u, v, c.tokenId, 0)).err # OK
                      /\ Run(r.st.seen[k],
                             Call("cancelItemListing", u, 0, c.tokenId, 0)).err # OK
  /\ \A c \in CancelCalls :
       Succeeds(c) =>
         LET r == Run(State, c)
             before == idToMarketItem[c.tokenId]
             after == MarketItem(c.tokenId, ZERO, c.sender, before.price, TRUE)
         IN /\ Len(r.st.sent) = 1 /\ Len(r.st.seen) = 1
            /\ r.st.sent[1] = <<owner, listingPrice>>
            /\ r.st.seen[1].items[c.tokenId] = after
            /\ r.st.seen[1].itemsSold = _itemsSold + 1
            /\ \A u \in Users :
                 Run(r.st.seen[1],
                     Call("cancelItemListing", u, 0, c.tokenId, 0)).err # OK

\* an active listing that its seller can cancel and another account can buy,
\* each with a transfer to the marketplace owner
C20_Witness ==
  \E c \in PurchaseCalls, d \in CancelCalls :
    /\ c.tokenId = d.tokenId /\ c.sender # d.sender
    /\ Succeeds(c) /\ Succeeds(d)
    /\ listingPrice > 0 /\ c.value > 0
    /\ Run(State, c).st.sent = << <<owner, listingPrice>>, <<d.sender, c.value>> >>
    /\ Run(State, d).st.sent = << <<owner, listingPrice>> >>
    /\ Run(State, c).st.seen[1].items[c.tokenId].sold = TRUE

\* the number of active listings
ActiveCount == Cardinality({i \in CreatedIds : idToMarketItem[i].sold = FALSE})

\* C21: the payment attached to createToken or resellToken stays in the
\* contract's balance and nothing is sent to the marketplace owner by them;
\* and, as long as the listing price is never changed, in every reachable
\* state the contract's balance is the listing price times the number of
\* active listings.  (Checked under SpecFixedFee.)
C21_BalanceIsFeeTimesActive ==
  /\ \A c \in ListCalls \cup ResellCalls :
       Succeeds(c) =>
         /\ Run(State, c).st.sent = <<>>
         /\ Commit(State, Run(State, c)).balance = balance + listingPrice
  /\ balance = listingPrice * ActiveCount

\* the number of transfers to the account a in a log of transfers
SentTo(log, a) == Cardinality({k \in 1..Len(log) : log[k][1] = a})

\* C22: of the createMarketSale calls by any buyers and the cancelItemListing
\* call by the seller against one active listing, at most one succeeds until
\* the item is listed again: the call that succeeds pays the seller at most
\* once, sends the listing price to the marketplace owner once, adds exactly
\* one to _itemsSold and leaves the record sold; and while a record is sold
\* (until a resellToken) every createMarketSale and cancelItemListing of it is
\* rejected and changes nothing, in whatever order the calls arrive and
\* whatever other calls come between them.
C22_AtMostOneEndsAListing ==
  [](\A c \in PurchaseCalls \cup CancelCalls :
       /\ ( /\ c.tokenId \in CreatedIds
            /\ idToMarketItem[c.tokenId].sold = TRUE ) =>
            /\ Run(State, c).err # OK
            /\ Commit(State, Run(State, c)) = State
       /\ Succeeds(c) =>
            LET r == Run(State, c)
                post == Commit(State, r)
                before == idToMarketItem[c.tokenId]
            IN /\ c.tokenId \in CreatedIds
               /\ before.sold = FALSE
               /\ post.items[c.tokenId].sold = TRUE
               /\ post.itemsSold = _itemsSold + 1
               /\ Len(r.st.sent) = IF c.op = "createMarketSale" THEN 2 ELSE 1
               /\ r.st.sent[1] = <<owner, listingPrice>>
               /\ c.op = "createMarketSale" => r.st.sent[2][1] = before.seller
               /\ \A d \in PurchaseCalls \cup CancelCalls :
                    d.tokenId = c.tokenId =>
                      /\ Run(post, d).err # OK
                      /\ Commit(post, Run(post, d)) = post)

\* an item has been sold while another listing is active: a second buyer who
\* offers its price and the former seller who cancels are both turned away
C22_Witness ==
  \E i, j \in CreatedIds, c \in PurchaseCalls, d \in CancelCalls :
    /\ i # j /\ c.tokenId = i /\ d.tokenId = i
    /\ idToMarketItem[i].sold = TRUE /\ idToMarketItem[j].sold = FALSE
    /\ idToMarketItem[i].owner \notin {c.sender, d.sender}
    /\ c.value = idToMarketItem[i].price
    /\ balance >= listingPrice
    /\ Run(State, c).err = ErrIncorrectOwner
    /\ Run(State, d).err = ErrOnlyItemSeller

\* C23: in every reachable state, also after the marketplace owner has raised
\* or lowered the listing price while items are listed, every active listing
\* can be ended: createMarketSale by any caller with payment = the record's
\* price succeeds and cancelItemListing by the record's seller succeeds;
\* neither fails because the contract's balance cannot cover the current
\* listing price.
C23_ActiveListingCanBeEnded ==
  \A i \in CreatedIds :
    idToMarketItem[i].sold = FALSE =>
      /\ \A u \in Users :
           Succeeds(Call("createMarketSale", u, idToMarketItem[i].price, i, 0))
      /\ Succeeds(Call("cancelItemListing", idToMarketItem[i].seller, 0, i, 0))

\* C24: fetchMyNFTs called by an account returns exactly the created records
\* whose owner field is that account and fetchItemsListed exactly those whose
\* seller field is that account, each once, over the ids 1.._tokenIds; every
\* record fetchItemsListed returns is an active listing.  (The queries are
\* view functions: they are evaluated on the state and write nothing.)
C24_QueriesExact ==
  \A u \in Users :
    LET mine == fetchMyNFTs(State, u)
        listed == fetchItemsListed(State, u)
        owned == {i \in CreatedIds : idToMarketItem[i].owner = u}
        selling == {i \in CreatedIds : idToMarketItem[i].seller = u}
    IN /\ mine.err = OK /\ listed.err = OK
       /\ Len(mine.items) = Cardinality(owned)
       /\ Returned(mine) = {idToMarketItem[i] : i \in owned}
       /\ Len(listed.items) = Cardinality(selling)
       /\ Returned(listed) = {idToMarketItem[i] : i \in selling}
       /\ \A x \in Returned(listed) : x.sold = FALSE /\ x.owner = THIS

\* one account has an active listing and owns nothing, another account owns an
\* item and lists nothing
C24_Witness ==
  \E u, v \in Users, i, j \in CreatedIds :
    /\ u # v /\ i # j
    /\ fetchItemsListed(State, u).items = <<idToMarketItem[i]>>
    /\ fetchMyNFTs(State, u).items = <<>>
    /\ fetchMyNFTs(State, v).items = <<idToMarketItem[j]>>
    /\ fetchItemsListed(State, v).items = <<>>

====
